---- MODULE Spec2Model ----
(***************************************************************************)
(* Model of lectures/13-generalized-moments/notebook.ipynb: the simulated  *)
(* samples of examples 1 and 2, the moment and criterion functions, the    *)
(* estimation cells and the sample-size loop.                              *)
(*                                                                         *)
(* Numbers.  The notebook computes in binary floating point.  The model    *)
(* computes in exact rational arithmetic: a number is a pair <<n, d>> with *)
(* d > 0 and gcd(n, d) = 1.  The three non-finite floats are the pairs     *)
(* with d = 0: <<1, 0>> is inf, <<-1, 0>> is -inf, <<0, 0>> is nan.        *)
(* Rounding error is therefore not modelled; underflow of the normal       *)
(* density to zero, which the notebook records as a warning, is.           *)
(*                                                                         *)
(* Random numbers.  numpy's global generator is deterministic: its state   *)
(* is fixed by the last seed and the number of values drawn since.  The    *)
(* model keeps exactly that pair as the generator state and takes the      *)
(* value of every draw from one fixed table Stream(seed, pos).             *)
(***************************************************************************)
EXTENDS Integers, Sequences, FiniteSets, TLC

VARIABLES rng, df, args, out, pc, glob_beta, it, num_agents, rslt

vars == <<rng, df, args, out, pc, glob_beta, it, num_agents, rslt>>

----------------------------------------------------------------------------
(* Bounds of the model. *)

MaxAgents == 4
MaxSeed == 2
MaxStep == 8
GridStart == 1
GridStop == 6
GridNum == 3

----------------------------------------------------------------------------
(* Exact rational arithmetic standing for float64 arithmetic. *)

Abs(n) == IF n < 0 THEN -n ELSE n

RECURSIVE Gcd(_, _)
Gcd(a, b) == IF b = 0 THEN a ELSE Gcd(b, a % b)

NormBy(n, d, g) ==
    IF d < 0 THEN <<(-n) \div g, (-d) \div g>> ELSE <<n \div g, d \div g>>

Norm(n, d) == NormBy(n, d, Gcd(Abs(n), Abs(d)))

R(n) == <<n, 1>>
Inf == <<1, 0>>
NegInf == <<-1, 0>>
NaN == <<0, 0>>
IsFinite(a) == a[2] # 0

RNeg(a) == <<-a[1], a[2]>>

Lcm(x, y) == (x \div Gcd(x, y)) * y

AddOver(a, b, l) == Norm(a[1] * (l \div a[2]) + b[1] * (l \div b[2]), l)

RAdd(a, b) ==
    IF a[2] = 0 \/ b[2] = 0
    THEN IF a = NaN \/ b = NaN THEN NaN
         ELSE IF a[2] = 0 /\ b[2] = 0 /\ a # b THEN NaN
         ELSE IF a[2] = 0 THEN a ELSE b
    ELSE AddOver(a, b, Lcm(a[2], b[2]))

RSub(a, b) == RAdd(a, RNeg(b))

Times(x, y) == <<x[1] * y[1], x[2] * y[2]>>

RMul(a, b) ==
    IF a[2] = 0 \/ b[2] = 0
    THEN IF a = NaN \/ b = NaN \/ a[1] = 0 \/ b[1] = 0 THEN NaN
         ELSE IF (a[1] < 0) = (b[1] < 0) THEN Inf ELSE NegInf
    ELSE Times(Norm(a[1], b[2]), Norm(b[1], a[2]))

RDiv(a, b) ==
    IF b[1] = 0 \/ a[2] = 0 \/ b[2] = 0
    THEN NaN
    ELSE RMul(a, Norm(b[2], b[1]))

RSq(a) == RMul(a, a)

Floor(a) == a[1] \div a[2]

RLt(a, b) ==
    IF a[2] = 0 \/ b[2] = 0
    THEN a # NaN /\ b # NaN /\ a # b /\ (a = NegInf \/ b = Inf)
    ELSE IF Floor(a) # Floor(b)
         THEN Floor(a) < Floor(b)
         ELSE (a[1] % a[2]) * b[2] < (b[1] % b[2]) * a[2]

RLe(a, b) == a = b \/ RLt(a, b)

RECURSIVE SumTo(_, _)
SumTo(f, n) == IF n = 0 THEN R(0) ELSE RAdd(SumTo(f, n - 1), f[n - 1])

Size(v) == Cardinality(DOMAIN v)
Sum(v) == SumTo(v, Size(v))
Mean(v) == IF Size(v) = 0 THEN NaN ELSE RDiv(Sum(v), R(Size(v)))

----------------------------------------------------------------------------
(* numpy's global generator.  np.random.seed(s) puts it in the state       *)
(* "seeded with s, nothing drawn"; a draw of size values returns the next  *)
(* size values of the stream of that seed and advances the position.       *)

DefaultSeed == 123
Seeds == (0 .. MaxSeed) \cup {DefaultSeed}

Stream(seed, pos) ==
    LET a == (seed * 37 + pos * 101 + 17) % 257
        b == (a * a + 3 * a + seed) % 263
    IN  R((b % 3) - 1)

SeedRng(seed) == [seed |-> seed, pos |-> 0]

Normal(g, size, scale) ==
    [vals |-> [i \in 0 .. size - 1 |-> RMul(R(scale), Stream(g.seed, g.pos + i))],
     rng  |-> [seed |-> g.seed, pos |-> g.pos + size]]

----------------------------------------------------------------------------
(* Example 1. *)

GetSample1_EpsFirst(g, n, beta, seed) ==
    LET g0  == SeedRng(seed)
        dE  == Normal(g0, n, 1)
        dX  == Normal(dE.rng, n, 10)
        X   == dX.vals
        eps == dE.vals
        Y   == [i \in 0 .. n - 1 |-> RAdd(RAdd(R(1), RMul(beta, X[i])), eps[i])]
    IN  [df  |-> [i \in 0 .. n - 1 |-> [Y |-> Y[i], X |-> X[i]]],
         rng |-> dX.rng]

GetSample1_NoReseed(g, n, beta, seed) ==
    LET dX  == Normal(g, n, 10)
        dE  == Normal(dX.rng, n, 1)
        X   == dX.vals
        eps == dE.vals
        Y   == [i \in 0 .. n - 1 |-> RAdd(RAdd(R(1), RMul(beta, X[i])), eps[i])]
    IN  [df  |-> [i \in 0 .. n - 1 |-> [Y |-> Y[i], X |-> X[i]]],
         rng |-> dE.rng]

GetSample1(g, n, beta, seed) ==
    LET g0  == SeedRng(seed)
        dX  == Normal(g0, n, 10)
        dE  == Normal(dX.rng, n, 1)
        X   == dX.vals
        eps == dE.vals
        Y   == [i \in 0 .. n - 1 |-> RAdd(RAdd(R(1), RMul(beta, X[i])), eps[i])]
    IN  [df  |-> [i \in 0 .. n - 1 |-> [Y |-> Y[i], X |-> X[i]]],
         rng |-> dE.rng]

Residuals(frame, beta) ==
    [i \in DOMAIN frame |->
        RSub(frame[i].Y, RAdd(R(1), RMul(beta, frame[i].X)))]

GetMoments1_NoIntercept(frame, beta) ==
    LET residuals == [i \in DOMAIN frame |->
                         RSub(frame[i].Y, RMul(beta, frame[i].X))]
        moments   == [i \in DOMAIN frame |-> RMul(frame[i].X, residuals[i])]
    IN  Mean(moments)

GetMoments1(frame, beta) ==
    LET residuals == Residuals(frame, beta)
        moments   == [i \in DOMAIN frame |-> RMul(frame[i].X, residuals[i])]
    IN  Mean(moments)

(* np.mean of a scalar: the mean of the one-element array holding it. *)
MeanScalar(x) == Mean([i \in {0} |-> x])

CriterionGmm1_NoSquare(frame, beta) ==
    LET moments == GetMoments1(frame, beta)
    IN  MeanScalar(moments)

CriterionGmm1(frame, beta) ==
    LET moments == GetMoments1(frame, beta)
    IN  RSq(MeanScalar(moments))

(* norm.pdf(r) is exp(-r^2/2)/sqrt(2*pi).  In float64 it is 0 once         *)
(* r^2/2 + log(sqrt(2*pi)) exceeds about 745.13 (half the smallest         *)
(* subnormal), that is once r^2 exceeds 1488; np.log(0) is -inf.           *)
(* log(sqrt(2*pi)) = 0.9189... is irrational and is taken as 23/25.        *)
UnderflowSq == 1488
LogSqrt2Pi == <<23, 25>>
ClipMin == R(-10000000)

LogNormPdf(r) ==
    IF RLt(R(UnderflowSq), RSq(r))
    THEN NegInf
    ELSE RNeg(RAdd(RDiv(RSq(r), R(2)), LogSqrt2Pi))

(* np.clip(v, lo, None): the larger of v and lo. *)
Clip_None(v, lo) == v

Clip(v, lo) == IF RLt(v, lo) THEN lo ELSE v

ClippedLogDensity(frame, beta) ==
    LET residuals == Residuals(frame, beta)
    IN  [i \in DOMAIN frame |-> Clip(LogNormPdf(residuals[i]), ClipMin)]

CriterionMle_NoNegation(frame, beta) ==
    LET rslt_ == ClippedLogDensity(frame, beta)
    IN  Mean(rslt_)

CriterionMle(frame, beta) ==
    LET rslt_ == ClippedLogDensity(frame, beta)
    IN  RNeg(Mean(rslt_))

(* smf.ols("Y ~ X").fit(): least squares of Y on an intercept and X.       *)
(* statsmodels solves with the pseudo-inverse, so a design whose X column  *)
(* is constant (X = c in every row) gets the minimum-norm solution         *)
(* (mean(Y)/(1+c^2), c*mean(Y)/(1+c^2)).                                   *)
OlsParams(frame) ==
    LET n   == Size(frame)
        X   == [i \in DOMAIN frame |-> frame[i].X]
        Y   == [i \in DOMAIN frame |-> frame[i].Y]
        sx  == Sum(X)
        sy  == Sum(Y)
        sxx == Sum([i \in DOMAIN frame |-> RMul(X[i], X[i])])
        sxy == Sum([i \in DOMAIN frame |-> RMul(X[i], Y[i])])
        den == RSub(RMul(R(n), sxx), RMul(sx, sx))
        b   == RDiv(RSub(RMul(R(n), sxy), RMul(sx, sy)), den)
        a   == RDiv(RSub(sy, RMul(b, sx)), R(n))
        c   == X[0]
        k   == RAdd(R(1), RMul(c, c))
    IN  IF den # R(0)
        THEN <<a, b>>
        ELSE <<RDiv(Mean(Y), k), RDiv(RMul(c, Mean(Y)), k)>>

----------------------------------------------------------------------------
(* Example 2. *)

GetSample2_CBeforeZ2(g, n, beta, seed) ==
    LET g0  == SeedRng(seed)
        dZ1 == Normal(g0, n, 10)
        dC  == Normal(dZ1.rng, n, 10)
        dZ2 == Normal(dC.rng, n, 10)
        dV  == Normal(dZ2.rng, n, 1)
        dU  == Normal(dV.rng, n, 1)
        Z1  == dZ1.vals
        Z2  == dZ2.vals
        C   == dC.vals
        X   == [i \in 0 .. n - 1 |->
                   RAdd(RAdd(C[i], RAdd(Z1[i], Z2[i])), dV.vals[i])]
        U   == [i \in 0 .. n - 1 |-> RAdd(C[i], dU.vals[i])]
        Y   == [i \in 0 .. n - 1 |->
                   RAdd(RAdd(R(1), RMul(beta, X[i])), U[i])]
    IN  [df  |-> [i \in 0 .. n - 1 |->
                     [Y |-> Y[i], X |-> X[i], Z1 |-> Z1[i], Z2 |-> Z2[i]]],
         rng |-> dU.rng]

GetSample2(g, n, beta, seed) ==
    LET g0  == SeedRng(seed)
        dZ1 == Normal(g0, n, 10)
        dZ2 == Normal(dZ1.rng, n, 10)
        dC  == Normal(dZ2.rng, n, 10)
        dV  == Normal(dC.rng, n, 1)
        dU  == Normal(dV.rng, n, 1)
        Z1  == dZ1.vals
        Z2  == dZ2.vals
        C   == dC.vals
        X   == [i \in 0 .. n - 1 |->
                   RAdd(RAdd(C[i], RAdd(Z1[i], Z2[i])), dV.vals[i])]
        U   == [i \in 0 .. n - 1 |-> RAdd(C[i], dU.vals[i])]
        Y   == [i \in 0 .. n - 1 |->
                   RAdd(RAdd(R(1), RMul(beta, X[i])), U[i])]
    IN  [df  |-> [i \in 0 .. n - 1 |->
                     [Y |-> Y[i], X |-> X[i], Z1 |-> Z1[i], Z2 |-> Z2[i]]],
         rng |-> dU.rng]

GetMoments2_FirstLabel(frame, beta) ==
    LET residuals == Residuals(frame, beta)
        moment(label) ==
            Mean([i \in DOMAIN frame |-> RMul(frame[i][label], residuals[i])])
    IN  <<moment("Z1"), moment("Z1")>>

GetMoments2(frame, beta) ==
    LET residuals == Residuals(frame, beta)
        moment(label) ==
            Mean([i \in DOMAIN frame |-> RMul(frame[i][label], residuals[i])])
    IN  <<moment("Z1"), moment("Z2")>>

Identity2 == <<<<R(1), R(0)>>, <<R(0), R(1)>>>>

(* np.dot of a vector and a matrix, and of two vectors. *)
DotVM(v, W) == [j \in 1 .. 2 |-> RAdd(RMul(v[1], W[1][j]), RMul(v[2], W[2][j]))]
DotVV(u, v) == RAdd(RMul(u[1], v[1]), RMul(u[2], v[2]))

CriterionGmm2_NoWeights(frame, beta, weighing_matrix) ==
    LET moments == GetMoments2(frame, beta)
    IN  DotVV(moments, moments)

CriterionGmm2(frame, beta, weighing_matrix) ==
    LET moments == GetMoments2(frame, beta)
    IN  DotVV(DotVM(moments, weighing_matrix), moments)

(* A call that leaves weighing_matrix out (written <<>>) gets the default. *)
CallOfCriterionGmm2(frame, beta, w) ==
    CriterionGmm2(frame, beta, IF w = <<>> THEN Identity2 ELSE w)

----------------------------------------------------------------------------
(* scipy.optimize.minimize(fun, x0, args) for one parameter: the          *)
(* criterion is called as fun(x, *args).  BFGS and Powell                  *)
(* are library code; both search along the line from x0 and both return    *)
(* the vertex of a criterion that is a parabola around its minimum.  The   *)
(* model brackets the minimum on unit steps around x0 (the nearest of the  *)
(* best steps), fits the parabola through the bracket and returns its      *)
(* vertex if that is no worse than the bracket's middle.                   *)

(* Python values handed to minimize as args.  (df,) is a one-element tuple *)
(* holding the frame; (df) is a parenthesised expression, the frame        *)
(* itself.                                                                 *)
PyFrame(frame) == [type |-> "DataFrame", value |-> frame]
PyTuple(items) == [type |-> "tuple", value |-> items]

ArgsTuple(frame) == PyTuple(<<PyFrame(frame)>>)

ArgsParenthesised_WithMatrix(frame) ==
    PyTuple(<<PyFrame(frame), <<<<R(2), R(1)>>, <<R(1), R(3)>>>>>>)

ArgsParenthesised(frame) == PyFrame(frame)

(* minimize wraps an args that is not a tuple into a one-element tuple. *)
AsTuple(a) == IF a.type = "tuple" THEN a.value ELSE <<a>>

(* The weighing_matrix a call fun(x, *args) binds: the second element of   *)
(* args when there is one, otherwise none (<<>>), which leaves the         *)
(* parameter at its default.                                               *)
MatrixPassed(args_) == IF Len(args_) >= 2 THEN args_[2] ELSE <<>>

(* fun(x, *args) as minimize calls it, args_ being the tuple. *)
CallFun(fun, b, args_) ==
    CASE fun = "criterion_function_gmm"   -> CriterionGmm1(args_[1].value, b)
      [] fun = "criterion_function_mle"   -> CriterionMle(args_[1].value, b)
      [] fun = "criterion_function_gmm_2" ->
             CallOfCriterionGmm2(args_[1].value, b, MatrixPassed(args_))

StepRank(s) == IF s > 0 THEN 2 * s - 1 ELSE -2 * s

(* The pair <<step, value>> with the least value, the step nearest to x0   *)
(* among equals.                                                           *)
BestOf(evals) ==
    CHOOSE p \in evals : \A q \in evals :
        \/ RLt(p[2], q[2])
        \/ p[2] = q[2] /\ StepRank(p[1]) <= StepRank(q[1])

Bracket(fun, x0, args_) ==
    BestOf({<<s, CallFun(fun, RAdd(x0, R(s)), args_)>> : s \in -MaxStep .. MaxStep})

(* The vertex of the parabola through (g-1, fm), (g, f0), (g+1, fp); nan   *)
(* when the three values do not curve upwards.                             *)
Vertex(g, f0, fp, fm) ==
    LET c2 == RSub(RDiv(RAdd(fp, fm), R(2)), f0)
        c1 == RDiv(RSub(fp, fm), R(2))
    IN  IF IsFinite(c2) /\ RLt(R(0), c2)
        THEN RSub(g, RDiv(c1, RMul(R(2), c2)))
        ELSE NaN

Accept(fun, args_, g, f0, v) ==
    IF IsFinite(v) /\ RLe(CallFun(fun, v, args_), f0) THEN v ELSE g

Refine(fun, args_, g, f0) ==
    Accept(fun, args_, g, f0,
           Vertex(g, f0, CallFun(fun, RAdd(g, R(1)), args_),
                         CallFun(fun, RSub(g, R(1)), args_)))

RefineFrom(fun, x0, args_, p) == Refine(fun, args_, RAdd(x0, R(p[1])), p[2])

MinimizeWith(fun, x0, args_) ==
    RefineFrom(fun, x0, args_, Bracket(fun, x0, args_))

Minimize(fun, x0, a) == MinimizeWith(fun, x0, AsTuple(a))

(* The calls of fun that minimize makes: at the bracket steps, at the two  *)
(* neighbours of the best step and at the vertex.  Each is recorded with   *)
(* the number of arguments that follow x and the weighing_matrix bound.    *)
ProbeVertex(v) == IF IsFinite(v) THEN {v} ELSE {}

ProbesAt(fun, x0, args_, g, f0) ==
    {RAdd(x0, R(s)) : s \in -MaxStep .. MaxStep}
        \cup {RAdd(g, R(1)), RSub(g, R(1))}
        \cup ProbeVertex(Vertex(g, f0, CallFun(fun, RAdd(g, R(1)), args_),
                                       CallFun(fun, RSub(g, R(1)), args_)))

ProbesFrom(fun, x0, args_, p) ==
    ProbesAt(fun, x0, args_, RAdd(x0, R(p[1])), p[2])

MatrixBound(w) == IF w = <<>> THEN Identity2 ELSE w

CallRecord(fun, b, args_) ==
    [beta |-> b, passed |-> Len(args_), frame |-> args_[1].value,
     weighing_matrix |-> MatrixBound(MatrixPassed(args_)),
     value |-> CallFun(fun, b, args_)]

CallsWith(fun, x0, args_) ==
    {CallRecord(fun, b, args_) :
        b \in ProbesFrom(fun, x0, args_, Bracket(fun, x0, args_))}

CallsOfMinimize(fun, x0, a) == CallsWith(fun, x0, AsTuple(a))

MinimizeGmm1(frame) ==
    Minimize("criterion_function_gmm", R(0), ArgsTuple(frame))

MinimizeMle(frame) ==
    Minimize("criterion_function_mle", R(0), ArgsTuple(frame))

MinimizeGmm2(frame) ==
    Minimize("criterion_function_gmm_2", R(0), ArgsParenthesised(frame))

(* IV2SLS.from_formula("Y ~ 1 + [X ~ Z1 + Z2]").fit(): X is projected on   *)
(* (1, Z1, Z2) and Y is regressed on (1, projected X).  With the intercept *)
(* partialled out, S.. below are the centred cross products.  linearmodels *)
(* raises when (1, Z1, Z2) has not full column rank, and the second stage  *)
(* has no solution when the projected X does not vary.                     *)
Centred(v) == LET m == Mean(v) IN [i \in DOMAIN v |-> RSub(v[i], m)]
Cross(u, v) == Sum([i \in DOMAIN u |-> RMul(u[i], v[i])])

IvParts(frame) ==
    LET col(c) == Centred([i \in DOMAIN frame |-> frame[i][c]])
        z1  == col("Z1")
        z2  == col("Z2")
        x   == col("X")
        y   == col("Y")
        S11 == Cross(z1, z1)
        S22 == Cross(z2, z2)
        S12 == Cross(z1, z2)
        det == RSub(RMul(S11, S22), RMul(S12, S12))
        g1  == RDiv(RSub(RMul(S22, Cross(z1, x)), RMul(S12, Cross(z2, x))), det)
        g2  == RDiv(RSub(RMul(S11, Cross(z2, x)), RMul(S12, Cross(z1, x))), det)
        xh  == [i \in DOMAIN frame |-> RAdd(RMul(g1, z1[i]), RMul(g2, z2[i]))]
    IN  [det |-> det, xhy |-> Cross(xh, y), xhx |-> Cross(xh, x)]

IvDefined(frame) ==
    /\ Size(frame) >= 3
    /\ IvParts(frame).det # R(0)
    /\ IvParts(frame).xhx # R(0)

Iv2sls(frame) == LET p == IvParts(frame) IN RDiv(p.xhy, p.xhx)

----------------------------------------------------------------------------
(* np.linspace(start, stop, num, dtype=int): num evenly spaced values from *)
(* start to stop, both included, each truncated to an integer.             *)
Linspace_NoEndpoint(start, stop, num) ==
    [j \in 1 .. num |->
        Floor(RAdd(R(start), RDiv(R((j - 1) * (stop - start)), R(num))))]

Linspace(start, stop, num) ==
    [j \in 1 .. num |->
        IF num = 1 THEN start
        ELSE Floor(RAdd(R(start), RDiv(R((j - 1) * (stop - start)), R(num - 1))))]

grid == Linspace(GridStart, GridStop, GridNum)

----------------------------------------------------------------------------
(* The inputs the functions are applied to. *)

GenBetas == {<<1, 5>>, R(7)}
GenBetas2 == {R(1), R(7)}
EvalBetas == {R(b) : b \in {-1, 0, 1, 6, 7, MaxStep}} \cup GenBetas
Weights == {<<>>, Identity2,
            <<<<R(2), R(1)>>, <<R(1), R(3)>>>>,
            <<<<R(1), R(2)>>, <<R(0), R(-1)>>>>}
NoArgs == [fn |-> "none", num_agents |-> 0, beta |-> R(0), seed |-> 0]
NoOut == [fn |-> "none", beta |-> R(0), W |-> <<>>, value |-> R(0)]

(* The state after the first two cells: imports, np.random.seed(123) and   *)
(* the definitions.  out is not a notebook variable: it records the last   *)
(* function call made and the value it returned, and after cell 10 the    *)
(* calls of the criterion that minimize made.                              *)
RunInit ==
    /\ rng = SeedRng(DefaultSeed)
    /\ df = <<>>
    /\ args = NoArgs
    /\ out = NoOut
    /\ pc = "cell3"
    /\ glob_beta = R(0)
    /\ it = 0
    /\ num_agents = 0
    /\ rslt = <<>>

(* The frame the functions of example 1 are applied to is one made by     *)
(* get_sample_1, the frame of the functions of example 2 one made by       *)
(* get_sample_2 (they read its columns Z1 and Z2).                         *)
HasXY == pc = "frame" /\ args.fn = "get_sample_1"
HasZ == pc = "frame" /\ args.fn = "get_sample_2"

----------------------------------------------------------------------------
(* The functions applied to inputs.  Init draws the arguments of a call of *)
(* get_sample_1 or get_sample_2 and the state the global generator is in   *)
(* when the call is made; the call builds the frame, and the moment and    *)
(* criterion functions are then applied to that frame in any order.        *)

Init ==
    /\ rng \in {SeedRng(DefaultSeed), [seed |-> 0, pos |-> 3]}
    /\ df = <<>>
    /\ \E n \in 1 .. MaxAgents, seed \in Seeds :
        \/ \E b \in GenBetas :
            args = [fn |-> "get_sample_1", num_agents |-> n,
                    beta |-> b, seed |-> seed]
        \/ \E b \in GenBetas2 :
            args = [fn |-> "get_sample_2", num_agents |-> n,
                    beta |-> b, seed |-> seed]
    /\ out = NoOut
    /\ pc = "call"
    /\ glob_beta = R(0)
    /\ it = 0
    /\ num_agents = 0
    /\ rslt = <<>>

CallGetSample1 ==
    /\ pc = "call"
    /\ args.fn = "get_sample_1"
    /\ LET r == GetSample1(rng, args.num_agents, args.beta, args.seed)
       IN  df' = r.df /\ rng' = r.rng
    /\ pc' = "frame"
    /\ UNCHANGED <<args, out, glob_beta, it, num_agents, rslt>>

CallGetSample2 ==
    /\ pc = "call"
    /\ args.fn = "get_sample_2"
    /\ LET r == GetSample2(rng, args.num_agents, args.beta, args.seed)
       IN  df' = r.df /\ rng' = r.rng
    /\ pc' = "frame"
    /\ UNCHANGED <<args, out, glob_beta, it, num_agents, rslt>>

CallGetMoments1 ==
    \E b \in EvalBetas :
        /\ HasXY
        /\ out' = [fn |-> "get_moments", beta |-> b, W |-> <<>>,
                   value |-> GetMoments1(df, b)]
        /\ UNCHANGED <<rng, df, args, pc, glob_beta, it, num_agents, rslt>>

CallCriterionGmm1 ==
    \E b \in EvalBetas :
        /\ HasXY
        /\ out' = [fn |-> "criterion_function_gmm", beta |-> b, W |-> <<>>,
                   value |-> CriterionGmm1(df, b)]
        /\ UNCHANGED <<rng, df, args, pc, glob_beta, it, num_agents, rslt>>

CallCriterionMle ==
    \E b \in EvalBetas :
        /\ HasXY
        /\ out' = [fn |-> "criterion_function_mle", beta |-> b, W |-> <<>>,
                   value |-> CriterionMle(df, b)]
        /\ UNCHANGED <<rng, df, args, pc, glob_beta, it, num_agents, rslt>>

CallGetMoments2 ==
    \E b \in EvalBetas :
        /\ HasZ
        /\ out' = [fn |-> "get_moments_2", beta |-> b, W |-> <<>>,
                   value |-> GetMoments2(df, b)]
        /\ UNCHANGED <<rng, df, args, pc, glob_beta, it, num_agents, rslt>>

CallCriterionGmm2 ==
    \E b \in EvalBetas, w \in Weights :
        /\ HasZ
        /\ out' = [fn |-> "criterion_function_gmm_2", beta |-> b, W |-> w,
                   value |-> CallOfCriterionGmm2(df, b, w)]
        /\ UNCHANGED <<rng, df, args, pc, glob_beta, it, num_agents, rslt>>

Next ==
    \/ CallGetSample1
    \/ CallGetSample2
    \/ CallGetMoments1
    \/ CallCriterionGmm1
    \/ CallCriterionMle
    \/ CallGetMoments2
    \/ CallCriterionGmm2

Spec == Init /\ [][Next]_vars

----------------------------------------------------------------------------
(* Repeated calls of get_sample_1 and get_sample_2.  Between two calls the *)
(* global generator is left as the last call left it or is advanced by a   *)
(* draw made elsewhere (np.random.normal(size=1)).  out.before keeps the   *)
(* generator state the call in progress started from; rslt keeps one       *)
(* earlier call (its arguments, the frame it returned and the generator    *)
(* state it started from) for comparison with later ones.                  *)

RepeatArgs ==
    {[fn |-> f, num_agents |-> n, beta |-> R(7), seed |-> seed] :
        f \in {"get_sample_1", "get_sample_2"},
        n \in {1, MaxAgents},
        seed \in {0, DefaultSeed}}

RepeatInit ==
    /\ rng \in {SeedRng(DefaultSeed), [seed |-> 0, pos |-> 3]}
    /\ df = <<>>
    /\ args \in RepeatArgs
    /\ out = [fn |-> "none", before |-> rng]
    /\ pc = "call"
    /\ glob_beta = R(0)
    /\ it = 0
    /\ num_agents = 0
    /\ rslt = <<>>

CallAgain ==
    /\ pc = "frame"
    /\ rslt' \in {rslt, [args |-> args, df |-> df, before |-> out.before]}
    /\ args' \in RepeatArgs
    /\ rng' \in {rng, Normal(rng, 1, 1).rng}
    /\ out' = [fn |-> "none", before |-> rng']
    /\ df' = <<>>
    /\ pc' = "call"
    /\ UNCHANGED <<glob_beta, it, num_agents>>

RepeatNext ==
    \/ CallGetSample1
    \/ CallGetSample2
    \/ CallAgain

RepeatSpec == RepeatInit /\ [][RepeatNext]_vars

----------------------------------------------------------------------------
(* The notebook run from top to bottom, one cell after the other.  The     *)
(* sample sizes 10000 of cells 4 and 7, their beta = 7 and the default     *)
(* seed are drawn from the inputs above.                                   *)

Cell3Enter ==
    /\ pc = "cell3"
    /\ glob_beta' = <<1, 5>>
    /\ rslt' = <<>>
    /\ it' = 0
    /\ pc' = "loop"
    /\ UNCHANGED <<rng, df, args, out, num_agents>>

Cell3Iterate ==
    /\ pc = "loop"
    /\ it < Size(grid)
    /\ LET n == grid[it + 1]
           s == GetSample1(rng, n, glob_beta, DefaultSeed)
           moment == GetMoments1(s.df, glob_beta)
       IN  /\ num_agents' = n
           /\ rng' = s.rng
           /\ rslt' = Append(rslt, moment)
    /\ it' = it + 1
    /\ UNCHANGED <<df, args, out, pc, glob_beta>>

Cell3Exit ==
    /\ pc = "loop"
    /\ it = Size(grid)
    /\ pc' = "cell4"
    /\ UNCHANGED <<rng, df, args, out, glob_beta, it, num_agents, rslt>>

Cell4 ==
    \E n \in 1 .. MaxAgents, b \in GenBetas, seed \in Seeds :
        LET r == GetSample1(rng, n, b, seed)
        IN  /\ pc = "cell4"
            /\ df' = r.df
            /\ rng' = r.rng
            /\ args' = [fn |-> "get_sample_1", num_agents |-> n,
                        beta |-> b, seed |-> seed]
            /\ rslt' = [cell |-> "gmm1", x |-> MinimizeGmm1(r.df)]
            /\ pc' = "cell5"
            /\ UNCHANGED <<out, glob_beta, it, num_agents>>

Cell5 ==
    /\ pc = "cell5"
    /\ rslt' = [cell |-> "ols", x |-> OlsParams(df)[2]]
    /\ pc' = "cell6"
    /\ UNCHANGED <<rng, df, args, out, glob_beta, it, num_agents>>

Cell6 ==
    /\ pc = "cell6"
    /\ rslt' = [cell |-> "mle", x |-> MinimizeMle(df)]
    /\ pc' = "cell7"
    /\ UNCHANGED <<rng, df, args, out, glob_beta, it, num_agents>>

Cell7 ==
    \E n \in 1 .. MaxAgents, b \in GenBetas2, seed \in Seeds :
        LET r == GetSample2(rng, n, b, seed)
        IN  /\ pc = "cell7"
            /\ df' = r.df
            /\ rng' = r.rng
            /\ args' = [fn |-> "get_sample_2", num_agents |-> n,
                        beta |-> b, seed |-> seed]
            /\ pc' = "cell8"
            /\ UNCHANGED <<out, glob_beta, it, num_agents, rslt>>

Cell8 ==
    /\ pc = "cell8"
    /\ rslt' = [cell |-> "ols", x |-> OlsParams(df)[2]]
    /\ pc' = "cell9"
    /\ UNCHANGED <<rng, df, args, out, glob_beta, it, num_agents>>

Cell9 ==
    /\ pc = "cell9"
    /\ IvDefined(df)
    /\ rslt' = [cell |-> "iv", x |-> Iv2sls(df)]
    /\ pc' = "cell10"
    /\ UNCHANGED <<rng, df, args, out, glob_beta, it, num_agents>>

Cell9Raise ==
    /\ pc = "cell9"
    /\ ~IvDefined(df)
    /\ pc' = "raised"
    /\ UNCHANGED <<rng, df, args, out, glob_beta, it, num_agents, rslt>>

Cell10 ==
    /\ pc = "cell10"
    /\ rslt' = [cell |-> "gmm2", x |-> MinimizeGmm2(df)]
    /\ out' = [fn |-> "minimize",
               calls |-> CallsOfMinimize("criterion_function_gmm_2", R(0),
                                         ArgsParenthesised(df))]
    /\ pc' = "done"
    /\ UNCHANGED <<rng, df, args, glob_beta, it, num_agents>>

RunNext ==
    \/ Cell3Enter
    \/ Cell3Iterate
    \/ Cell3Exit
    \/ Cell4
    \/ Cell5
    \/ Cell6
    \/ Cell7
    \/ Cell8
    \/ Cell9
    \/ Cell9Raise
    \/ Cell10

RunSpec == RunInit /\ [][RunNext]_vars

----------------------------------------------------------------------------
(* Properties. *)

Rows == DOMAIN df
Col(c) == [i \in Rows |-> df[i][c]]
Prod(u, v) == [i \in DOMAIN u |-> RMul(u[i], v[i])]

(* The call named by args has returned the frame df. *)
Returned(fn) == args.fn = fn /\ pc # "call"

(* The k-th value of the standard-normal stream after seeding with the     *)
(* seed of the call that produced df.                                      *)
d(k) == Stream(args.seed, k)

(* C1: get_sample_1(num_agents, beta, seed) returns num_agents rows        *)
(* indexed 0..num_agents-1 with columns Y and X; row i has X = 10*d[i] and *)
(* Y = 1 + beta*X + d[num_agents+i], so Y - 1 - beta*X is the i-th value   *)
(* of the second block of num_agents draws.                                *)
C1_Sample1Rows ==
    Returned("get_sample_1") =>
        /\ Rows = 0 .. args.num_agents - 1
        /\ \A i \in Rows :
            /\ DOMAIN df[i] = {"Y", "X"}
            /\ df[i].X = RMul(R(10), d(i))
            /\ df[i].Y = RAdd(R(1), RAdd(RMul(args.beta, RMul(R(10), d(i))),
                                         d(args.num_agents + i)))
            /\ RSub(RSub(df[i].Y, R(1)), RMul(args.beta, df[i].X))
                   = d(args.num_agents + i)

C1_Witness ==
    /\ Returned("get_sample_1")
    /\ args.num_agents = MaxAgents
    /\ args.beta = R(7)
    /\ \E i \in Rows : d(i) # d(args.num_agents + i) /\ d(i) # R(0)

(* C2: the example-1 get_moments(df, beta) is the mean over all rows of    *)
(* X*(Y - (1 + beta*X)); on a frame of get_sample_1 evaluated at the       *)
(* generating beta it is the mean of X_i*eps_i, the same value whatever    *)
(* beta the sample was generated with.                                     *)
C2_MomentAtTruth ==
    (out.fn = "get_moments" /\ HasXY) =>
        LET n   == Size(df)
            X   == Col("X")
            Y   == Col("Y")
            sxy == Sum(Prod(X, Y))
            sx  == Sum(X)
            sxx == Sum(Prod(X, X))
            eps == [i \in Rows |-> d(n + i)]
        IN  /\ RMul(R(n), out.value)
                = RSub(RSub(sxy, sx), RMul(out.beta, sxx))
            /\ out.beta = args.beta =>
                /\ out.value = Mean(Prod(X, eps))
                /\ \A b \in GenBetas :
                    GetMoments1(GetSample1(rng, n, b, args.seed).df, b)
                        = out.value

C2_Witness ==
    /\ out.fn = "get_moments"
    /\ Returned("get_sample_1")
    /\ out.beta = args.beta
    /\ args.num_agents > 1
    /\ out.value # R(0)

(* C3: the example-2 criterion_function_gmm(beta, df, weighing_matrix) is  *)
(* the quadratic form m' W m of the moments m = (mean(Z1*r), mean(Z2*r)),  *)
(* r = Y - (1 + beta*X), in the matrix passed in; with the default         *)
(* identity it is m1^2 + m2^2, never negative and zero exactly when both   *)
(* moments are zero.                                                       *)
C3_QuadraticForm ==
    (out.fn = "criterion_function_gmm_2" /\ HasZ) =>
        LET n  == Size(df)
            Y1 == [i \in Rows |-> RSub(df[i].Y, R(1))]
            m(label) ==
                RDiv(RSub(Sum(Prod(Col(label), Y1)),
                          RMul(out.beta, Sum(Prod(Col(label), Col("X"))))),
                     R(n))
            m1 == m("Z1")
            m2 == m("Z2")
            W  == IF out.W = <<>> THEN Identity2 ELSE out.W
            q  == RAdd(RAdd(RMul(RMul(m1, W[1][1]), m1),
                            RMul(RMul(m1, W[1][2]), m2)),
                       RAdd(RMul(RMul(m2, W[2][1]), m1),
                            RMul(RMul(m2, W[2][2]), m2)))
        IN  /\ out.value = q
            /\ out.W = <<>> =>
                /\ out.value = RAdd(RSq(m1), RSq(m2))
                /\ RLe(R(0), out.value)
                /\ (out.value = R(0)) <=> (m1 = R(0) /\ m2 = R(0))

C3_Witness ==
    /\ out.fn = "criterion_function_gmm_2"
    /\ HasZ
    /\ out.W = <<>>
    /\ args.num_agents > 1
    /\ GetMoments2(df, out.beta)[1] # R(0)
    /\ GetMoments2(df, out.beta)[2] # R(0)
    /\ GetMoments2(df, out.beta)[1] # GetMoments2(df, out.beta)[2]

(* C7: get_sample_2(num_agents, beta, seed) returns num_agents rows with   *)
(* columns Y, X, Z1, Z2 built from five consecutive blocks of num_agents   *)
(* draws: Z1 (times 10), Z2 (times 10), C (times 10), v, u; each row has   *)
(* X = C + Z1 + Z2 + v and Y = 1 + beta*X + C + u, so Y - 1 - beta*X is    *)
(* C + u.                                                                  *)
C7_Sample2Rows ==
    Returned("get_sample_2") =>
        LET n == args.num_agents
        IN  /\ Rows = 0 .. n - 1
            /\ \A i \in Rows :
                LET Z1 == RMul(R(10), d(i))
                    Z2 == RMul(R(10), d(n + i))
                    C  == RMul(R(10), d(2 * n + i))
                    v  == d(3 * n + i)
                    u  == d(4 * n + i)
                    X  == RAdd(RAdd(RAdd(C, Z1), Z2), v)
                IN  /\ DOMAIN df[i] = {"Y", "X", "Z1", "Z2"}
                    /\ df[i].Z1 = Z1
                    /\ df[i].Z2 = Z2
                    /\ df[i].X = X
                    /\ df[i].Y = RAdd(RAdd(RAdd(R(1), RMul(args.beta, X)), C), u)
                    /\ RSub(RSub(df[i].Y, R(1)), RMul(args.beta, df[i].X))
                           = RAdd(C, u)

C7_Witness ==
    /\ Returned("get_sample_2")
    /\ args.num_agents = MaxAgents
    /\ \E i \in Rows :
        /\ d(2 * args.num_agents + i) # R(0)
        /\ d(2 * args.num_agents + i) # d(args.num_agents + i)
        /\ df[i].Z1 # df[i].Z2

(* C9: the example-1 criterion_function_gmm(beta, df) is the square of the *)
(* value get_moments(df, beta) returns; it is never negative, zero exactly *)
(* when the moment is zero, and when sum(X^2) > 0 its only zero is         *)
(* beta = sum(X*(Y - 1)) / sum(X^2).                                       *)
C9_SquareOfMoment ==
    (out.fn = "criterion_function_gmm" /\ HasXY) =>
        LET m    == GetMoments1(df, out.beta)
            X    == Col("X")
            Y1   == [i \in Rows |-> RSub(df[i].Y, R(1))]
            sxx  == Sum(Prod(X, X))
            root == RDiv(Sum(Prod(X, Y1)), sxx)
        IN  /\ out.value = RMul(m, m)
            /\ RLe(R(0), out.value)
            /\ (out.value = R(0)) <=> (m = R(0))
            /\ sxx # R(0) =>
                /\ (out.value = R(0)) <=> (out.beta = root)
                /\ CriterionGmm1(df, root) = R(0)

C9_Witness ==
    /\ out.fn = "criterion_function_gmm"
    /\ HasXY
    /\ args.num_agents > 1
    /\ Sum(Prod(Col("X"), Col("X"))) # R(0)
    /\ out.value = R(0)

(* C10: criterion_function_mle returns a finite value: every observation's *)
(* log density is bounded below at -10e6 before averaging, also when the   *)
(* density underflows to zero and its logarithm is -inf; the criterion     *)
(* never exceeds 10,000,000 and a log density above the bound is left      *)
(* unchanged.                                                              *)
C10_ClippedFinite ==
    (out.fn = "criterion_function_mle" /\ HasXY) =>
        LET res  == Residuals(df, out.beta)
            logd == [i \in Rows |-> LogNormPdf(res[i])]
            cl   == ClippedLogDensity(df, out.beta)
        IN  /\ IsFinite(out.value)
            /\ RLe(out.value, R(10000000))
            /\ out.value = RNeg(Mean(cl))
            /\ \A i \in Rows :
                /\ IsFinite(cl[i])
                /\ RLe(R(-10000000), cl[i])
                /\ RLt(R(-10000000), logd[i]) => cl[i] = logd[i]
                /\ logd[i] = NegInf => cl[i] = R(-10000000)

C10_Witness ==
    /\ out.fn = "criterion_function_mle"
    /\ HasXY
    /\ \E i, j \in Rows :
        /\ LogNormPdf(Residuals(df, out.beta)[i]) = NegInf
        /\ LogNormPdf(Residuals(df, out.beta)[j]) # NegInf

----------------------------------------------------------------------------
(* Properties of the notebook run. *)

SumXX == Sum(Prod(Col("X"), Col("X")))
SumX == Sum(Col("X"))
SumXY1 == Sum(Prod(Col("X"), [i \in Rows |-> RSub(df[i].Y, R(1))]))

XVaries == RMul(R(Size(df)), SumXX) # RMul(SumX, SumX)

(* C4 as stated: on every sample of get_sample_1 the beta that minimises   *)
(* the example-1 GMM criterion equals the OLS slope of Y ~ X with an       *)
(* intercept.  Stated here for the samples whose X varies, on which the    *)
(* least-squares line is unique.                                           *)
C4_GmmEqualsOlsSlope ==
    (pc = "cell5" /\ XVaries) => rslt.x = OlsParams(df)[2]

(* C4 as amended: when sum(X^2) > 0 the beta that minimises the example-1  *)
(* GMM criterion is sum(X*(Y - 1)) / sum(X^2), the beta at which the mean  *)
(* of X*(Y - 1 - beta*X) is zero with the intercept held at 1; it equals   *)
(* the OLS slope of Y ~ X exactly when sum(X) = 0 or the fitted OLS        *)
(* intercept is 1.                                                         *)
C4_GmmVersusOls ==
    (pc = "cell5" /\ SumXX # R(0)) =>
        LET ols == OlsParams(df)
        IN  /\ rslt.x = RDiv(SumXY1, SumXX)
            /\ GetMoments1(df, rslt.x) = R(0)
            /\ \A b \in EvalBetas :
                RLe(CriterionGmm1(df, rslt.x), CriterionGmm1(df, b))
            /\ (rslt.x = ols[2])
                 <=> (SumX = R(0) \/ ols[1] = R(1))

C4_Witness ==
    /\ pc = "cell5"
    /\ args.num_agents >= 3
    /\ XVaries
    /\ rslt.x # OlsParams(df)[2]
    /\ rslt.x # args.beta

(* C5: on the same example-1 sample the beta that minimises                *)
(* criterion_function_mle equals the beta that minimises the example-1 GMM *)
(* criterion; where no observation is clipped the MLE criterion is a       *)
(* constant plus half the mean squared residual, so it orders any two      *)
(* betas as the sum of squared residuals does, and its minimiser makes the *)
(* mean of X*residual zero.                                                *)
Unclipped(b) == \A i \in Rows : LogNormPdf(Residuals(df, b)[i]) # NegInf
SSR(b) == LET r == Residuals(df, b) IN Sum(Prod(r, r))

C5_MleEqualsGmm ==
    pc = "cell7" =>
        LET probes == {b \in EvalBetas \cup {rslt.x} : Unclipped(b)}
        IN  /\ rslt.x = MinimizeGmm1(df)
            /\ GetMoments1(df, rslt.x) = R(0)
            /\ \A b \in EvalBetas :
                RLe(CriterionMle(df, rslt.x), CriterionMle(df, b))
            /\ \A b \in probes :
                CriterionMle(df, b)
                    = RAdd(LogSqrt2Pi, RDiv(SSR(b), R(2 * Size(df))))
            /\ \A b1, b2 \in probes :
                RLe(CriterionMle(df, b1), CriterionMle(df, b2))
                    <=> RLe(SSR(b1), SSR(b2))

C5_Witness ==
    /\ pc = "cell7"
    /\ args.num_agents >= 3
    /\ SumXX # R(0)
    /\ rslt.x[2] # 1
    /\ ~Unclipped(R(0))
    /\ Unclipped(rslt.x)

(* C6 as stated: on the example-2 sample the beta that minimises the GMM   *)
(* criterion of the moments on Z1 and Z2 with the identity weighting       *)
(* matrix equals the two-stage least squares coefficient on X.  Stated     *)
(* here for the samples with more rows than the first stage has            *)
(* coefficients, on which the projection of X differs from X.              *)
C6_GmmEqualsIv ==
    (pc = "done" /\ args.num_agents > 3) => rslt.x = Iv2sls(df)

(* C6 as amended: with a_k = mean(Z_k*(Y - 1)) and b_k = mean(Z_k*X), the  *)
(* beta that minimises the identity-weighted GMM criterion is              *)
(* (a1*b1 + a2*b2) / (b1^2 + b2^2) when b1^2 + b2^2 > 0, the beta at which *)
(* b1*m1 + b2*m2 = 0; it is not in general the two-stage least squares     *)
(* coefficient.                                                            *)
C6_GmmIdentityWeights ==
    pc = "done" =>
        LET n  == Size(df)
            Y1 == [i \in Rows |-> RSub(df[i].Y, R(1))]
            a1 == RDiv(Sum(Prod(Col("Z1"), Y1)), R(n))
            a2 == RDiv(Sum(Prod(Col("Z2"), Y1)), R(n))
            b1 == RDiv(Sum(Prod(Col("Z1"), Col("X"))), R(n))
            b2 == RDiv(Sum(Prod(Col("Z2"), Col("X"))), R(n))
            bb == RAdd(RSq(b1), RSq(b2))
            m  == GetMoments2(df, rslt.x)
        IN  /\ bb # R(0) =>
                /\ rslt.x = RDiv(RAdd(RMul(a1, b1), RMul(a2, b2)), bb)
                /\ RAdd(RMul(b1, m[1]), RMul(b2, m[2])) = R(0)
            /\ \A b \in EvalBetas :
                RLe(CallOfCriterionGmm2(df, rslt.x, <<>>),
                    CallOfCriterionGmm2(df, b, <<>>))

C6_Witness ==
    /\ pc = "done"
    /\ args.num_agents > 3
    /\ rslt.x # Iv2sls(df)
    /\ GetMoments2(df, rslt.x)[1] # R(0)

(* C8: the sample-size loop runs one iteration per grid value and then     *)
(* ends; the grid of the notebook is 100 + 10100*k for k = 0..99, strictly *)
(* increasing from 100 to 1000000; iteration k simulates grid[k] agents    *)
(* with beta = 0.2, evaluates the moment at that beta and appends exactly  *)
(* one value, so after the loop rslt has one entry per grid value and      *)
(* rslt[k] is the moment of the sample of size grid[k].  Termination is    *)
(* stated as: inside the loop an iteration or the exit is always possible, *)
(* every iteration raises the count by one, and the exit is taken at count *)
(* GridNum and at no other.                                                *)
MomentAtTruth(n) ==
    Mean([i \in 0 .. n - 1 |->
             RMul(RMul(R(10), Stream(DefaultSeed, i)),
                  Stream(DefaultSeed, n + i))])

C8_LoopState ==
    /\ Size(Linspace(100, 1000000, 100)) = 100
    /\ \A j \in 0 .. 99 : Linspace(100, 1000000, 100)[j + 1] = 100 + 10100 * j
    /\ Size(grid) = GridNum
    /\ grid[1] = GridStart /\ grid[GridNum] = GridStop
    /\ \A j \in 1 .. GridNum - 1 : grid[j] < grid[j + 1]
    /\ pc \in {"loop", "cell4"} =>
        /\ glob_beta = <<1, 5>>
        /\ it \in 0 .. GridNum
        /\ Len(rslt) = it
        /\ it > 0 => num_agents = grid[it]
        /\ \A j \in 1 .. it : rslt[j] = MomentAtTruth(grid[j])
    /\ pc = "loop" => (it < Size(grid) \/ it = Size(grid))
    /\ pc = "cell4" => it = GridNum

C8_LoopStep ==
    /\ (pc = "loop" /\ pc' = "loop") =>
        /\ it < GridNum
        /\ it' = it + 1
        /\ num_agents' = grid[it + 1]
        /\ rslt' = Append(rslt, MomentAtTruth(grid[it + 1]))
    /\ (pc = "loop" /\ pc' # "loop") =>
        /\ pc' = "cell4"
        /\ it = GridNum
        /\ rslt' = rslt

C8_Loop == []C8_LoopState /\ [][C8_LoopStep]_vars

C8_Witness ==
    /\ pc = "cell4"
    /\ Len(rslt) = GridNum
    /\ it = GridNum
    /\ rslt[GridNum] # rslt[1]

(* C11: in the example-2 estimation every call of criterion_function_gmm   *)
(* that minimize makes receives beta and the frame and nothing else        *)
(* (args=(df) is the frame itself, which minimize wraps into a one-element *)
(* tuple), so the weighing matrix is the 2x2 identity at every call, every *)
(* value returned is m1^2 + m2^2, and the estimate reported is one of the  *)
(* betas evaluated and has the least m1^2 + m2^2 among them.               *)
SumOfSquaredMoments(b) ==
    LET m == GetMoments2(df, b) IN RAdd(RSq(m[1]), RSq(m[2]))

C11_OnlyBetaAndFrame ==
    pc = "done" =>
        /\ out.fn = "minimize"
        /\ out.calls # {}
        /\ \A c \in out.calls :
            /\ c.passed = 1
            /\ c.frame = df
            /\ c.weighing_matrix = Identity2
            /\ c.value = SumOfSquaredMoments(c.beta)
            /\ RLe(SumOfSquaredMoments(rslt.x), c.value)
        /\ \E c \in out.calls : c.beta = rslt.x
        /\ \A b \in EvalBetas :
            RLe(SumOfSquaredMoments(rslt.x), SumOfSquaredMoments(b))

C11_Witness ==
    /\ pc = "done"
    /\ args.num_agents > 3
    /\ Cardinality(out.calls) > 2 * MaxStep + 1
    /\ rslt.x[2] # 1
    /\ \E c \in out.calls : c.beta = rslt.x /\ c.value # R(0)
    /\ \E c \in out.calls : c.beta # rslt.x /\ c.weighing_matrix = Identity2

(* C12: get_sample_1 and get_sample_2 are deterministic in their           *)
(* arguments: a call with the same (num_agents, beta, seed) as an earlier  *)
(* call of the same function returns the identical frame, whatever state   *)
(* the global generator was in before either call and whatever calls and   *)
(* draws were made in between; every call leaves the generator seeded with *)
(* its seed and advanced by the draws of that call alone (two blocks of    *)
(* num_agents for get_sample_1, five for get_sample_2).                    *)
Remembered == DOMAIN rslt # {}

BlocksDrawn == IF args.fn = "get_sample_1" THEN 2 ELSE 5

C12_Deterministic ==
    pc = "frame" =>
        /\ rng = [seed |-> args.seed, pos |-> BlocksDrawn * args.num_agents]
        /\ (Remembered /\ rslt.args = args) => df = rslt.df

C12_Witness ==
    /\ pc = "frame"
    /\ Remembered
    /\ rslt.args = args
    /\ args.num_agents = MaxAgents
    /\ rslt.before # out.before
    /\ rslt.before.seed # args.seed
    /\ out.before # SeedRng(args.seed)
    /\ out.before.pos > 0
    /\ df = rslt.df

====
